---- MODULE Spec2Model ----
(***************************************************************************)
(* Model of the Miro MCP adapter: the Remote Resource Client (MiroClient)  *)
(* and its bulk operations, driven by concurrently running handler         *)
(* invocations.  One action is one turn of the JavaScript event loop: the  *)
(* code of a handler from one `await` (or from its call) up to the next    *)
(* `await`, `return` or `throw`.                                           *)
(***************************************************************************)
EXTENDS Integers, Sequences, FiniteSets, TLC

VARIABLES inv, proc
vars == <<inv, proc>>

(* ------------------------------ bounds -------------------------------- *)
\* short batches have 0..SmallLen elements
SmallLen == 3
\* long batches have BatchLimit .. BatchLimit + OverLimit elements
OverLimit == 1
\* batch inputs are drawn with a base of 1..MaxBase (see Pick)
MaxBase == 2
\* responses other than the nominal one, per invocation
MaxFaults == 1
\* length of the batches within the limit drawn while several invocations overlap
ConcLen == 2

(* ------------------------- program constants --------------------------- *)
\* `items.length > 20`
BatchLimit == 20

\* the `type` union of CreateItemData, MiroItem.type
ItemTypeSeq ==
  << "sticky_note", "connector", "shape", "app_card", "text",
     "card", "frame", "image", "document", "embed" >>

NTypes == Len(ItemTypeSeq)

ItemTypes == { ItemTypeSeq[k] : k \in 1..NTypes }

\* the item types bulkCreateItems has a case for
CreatableTypes ==
  { "sticky_note", "text", "shape", "card", "frame", "image", "document", "embed" }

\* the item types updateItem has a case for
RoutedTypes ==
  { "sticky_note", "shape", "text", "card", "connector", "frame", "image",
    "document", "embed" }

\* the collection segment of the typed endpoints: /boards/{b}/<segment>[/{id}]
TypeSegment(type) ==
  CASE type = "sticky_note" -> "sticky_notes"
    [] type = "shape"       -> "shapes"
    [] type = "text"        -> "texts"
    [] type = "card"        -> "cards"
    [] type = "connector"   -> "connectors"
    [] type = "frame"       -> "frames"
    [] type = "image"       -> "images"
    [] type = "document"    -> "documents"
    [] type = "embed"       -> "embeds"
    [] OTHER                -> "items"

\* the item type a typed collection holds
SegmentType(segment) ==
  IF \E t \in RoutedTypes : TypeSegment(t) = segment
    THEN CHOOSE t \in RoutedTypes : TypeSegment(t) = segment
    ELSE "undefined"

BulkOps ==
  { "bulkCreateItems", "bulkUpdateItems", "bulkDeleteItems", "bulkCreateConnectors" }

\* the operations of the client that create one item of a type
CreateOfType ==
  [ t \in CreatableTypes \cup { "connector" } |->
      CASE t = "sticky_note" -> "createStickyNote" [] t = "shape" -> "createShape"
        [] t = "text" -> "createText"              [] t = "card" -> "createCard"
        [] t = "connector" -> "createConnector"    [] t = "frame" -> "createFrame"
        [] t = "image" -> "createImage"            [] t = "document" -> "createDocument"
        [] t = "embed" -> "createEmbed" ]

CreateOps == { CreateOfType[t] : t \in DOMAIN CreateOfType }

\* the type of the item a create operation creates
CreatedType(op) == CHOOSE t \in DOMAIN CreateOfType : CreateOfType[t] = op

\* the operations that take the id of an item
ItemOps ==
  { "getItem", "updateItem", "deleteItem", "getItemsInFrame", "attachTagToItem",
    "removeTagFromItem" }

\* the operations that return `response.data`
DataOps ==
  { "getBoards", "getBoardItems", "getFrames", "getItemsInFrame", "getTags",
    "getBoardMembers", "getWebhooks", "searchItems" }

\* the operations that update one item through the endpoint of its type
UpdateOfType ==
  [ t \in RoutedTypes |->
      CASE t = "sticky_note" -> "updateStickyNote" [] t = "shape" -> "updateShape"
        [] t = "text" -> "updateText"              [] t = "card" -> "updateCard"
        [] t = "connector" -> "updateConnector"    [] t = "frame" -> "updateFrame"
        [] t = "image" -> "updateImage"            [] t = "document" -> "updateDocument"
        [] t = "embed" -> "updateEmbed" ]

TypedUpdateOps == { UpdateOfType[t] : t \in RoutedTypes }

\* the type of the items a typed update operation updates
UpdatedType(op) == CHOOSE t \in RoutedTypes : UpdateOfType[t] = op

\* the operations on one tag, group, member or webhook, with the collection each
\* addresses; the webhooks are not under a board
MemberSegment ==
  [ op \in { "updateTag", "deleteTag", "updateGroup", "deleteGroup",
             "updateBoardMember", "removeBoardMember", "updateWebhook",
             "deleteWebhook" } |->
      CASE op \in { "updateTag", "deleteTag" }                 -> "tags"
        [] op \in { "updateGroup", "deleteGroup" }             -> "groups"
        [] op \in { "updateBoardMember", "removeBoardMember" } -> "members"
        [] op \in { "updateWebhook", "deleteWebhook" }         -> "webhooks" ]

MemberOps == DOMAIN MemberSegment

\* the public operations of the client that no tool, resource handler or route
\* calls: they are reached only by a caller that holds the exported client
DirectOps == TypedUpdateOps \cup MemberOps

\* the operations declared Promise<void>
VoidOps ==
  { "bulkDeleteItems", "deleteItem", "deleteBoard", "attachTagToItem",
    "removeTagFromItem", "deleteTag", "deleteGroup", "removeBoardMember",
    "deleteWebhook" }

BoardOps == { "getBoard", "createBoard", "updateBoard", "copyBoard", "deleteBoard" }

\* the operations of the client that a tool, a resource handler or the route calls
\* and that are no bulk operation
ServedOps ==
  ItemOps \cup DataOps \cup BoardOps \cup CreateOps
    \cup { "createTag", "createGroup", "shareBoardWithUser", "createWebhook" }

\* the public operations of the client that are no bulk operation
SingleOps == ServedOps \cup DirectOps

Boards == { "b1" }

\* the handler contexts that can run at the same time
Handlers == { "h1", "h2" }

(* ------------------------ the remote service --------------------------- *)
\* the items the remote board holds from the start: item k has type ItemTypeSeq[k]
ItemIds == 1..NTypes

\* the position of a type in ItemTypeSeq (NTypes for a value that is no item)
TypeIndex(type) ==
  IF type \in ItemTypes THEN CHOOSE k \in 1..NTypes : ItemTypeSeq[k] = type ELSE NTypes

\* the id the service gives the item it creates for the k-th request of an
\* invocation: a fresh id, from which the type of the item can be read
CreatedId(type, k) == NTypes * k + TypeIndex(type)

\* the type of the item with the given id, initial or created
RemoteTypeOf(id) == ItemTypeSeq[((id - 1) % NTypes) + 1]

Statuses == { 200, 204, 304, 404, 429, 500 }

StatusText(status) ==
  CASE status = 200 -> "OK"
    [] status = 204 -> "No Content"
    [] status = 304 -> "Not Modified"
    [] status = 404 -> "Not Found"
    [] status = 429 -> "Too Many Requests"
    [] OTHER        -> "Internal Server Error"

ContentTypes == { "application/json; charset=utf-8", "text/html", "none" }

\* the value of `{}`
EmptyObject == [ call |-> 0, id |-> 0, type |-> "undefined" ]

\* the value of `undefined`: of a call that returned nothing, of `({}).data`
Undefined == [ call |-> 0, id |-> 0, type |-> "no value" ]

NoBody == [ kind |-> "empty", value |-> EmptyObject ]

\* the JSON document the service sends for the k-th request of an invocation
RemoteValue(req, k) ==
  [ call |-> k,
    id   |-> IF req.id # 0 THEN req.id ELSE CreatedId(SegmentType(req.segment), k),
    type |-> IF req.id # 0 THEN RemoteTypeOf(req.id) ELSE SegmentType(req.segment) ]

Bodies(req, k) ==
  { [ kind |-> "json", value |-> RemoteValue(req, k) ],
    NoBody,
    [ kind |-> "text", value |-> EmptyObject ] }

Responses(req, k) ==
  { [ status |-> st, statusText |-> StatusText(st), contentType |-> ct, body |-> b ] :
      st \in Statuses, ct \in ContentTypes, b \in Bodies(req, k) }

\* the answer of a healthy service: 204 without a body to a DELETE, else 200 with JSON
IsNominal(req, resp) ==
  IF req.method = "DELETE"
    THEN resp.status = 204 /\ resp.contentType = "none" /\ resp.body.kind = "empty"
    ELSE /\ resp.status = 200
         /\ resp.contentType = "application/json; charset=utf-8"
         /\ resp.body.kind = "json"

\* the one failure drawn while handlers overlap
IsPlainFailure(resp) ==
  resp.status = 500 /\ resp.contentType = "text/html" /\ resp.body.kind = "text"

\* the answers other than the nominal one drawn for the requests of a batch: a
\* failure with a text or with a JSON body, a 2xx without JSON, a 2xx that
\* announces JSON and has none, and a 204
IsBatchAnswer(resp) ==
  \/ IsPlainFailure(resp)
  \/ /\ resp.status = 404 /\ resp.contentType = "application/json; charset=utf-8"
     /\ resp.body.kind = "json"
  \/ resp.status = 200 /\ resp.contentType = "text/html" /\ resp.body.kind = "text"
  \/ /\ resp.status = 200 /\ resp.contentType = "application/json; charset=utf-8"
     /\ resp.body.kind = "empty"
  \/ resp.status = 204 /\ resp.contentType = "none" /\ resp.body.kind = "empty"

\* the answers drawn for a request: the nominal one, and while the invocation has
\* faults left also the plain failure (while handlers overlap), the answers of
\* IsBatchAnswer (to a request of a batch) or any response (to a single operation)
ServiceResponses(req, k, alone, batch, faultsLeft) ==
  { r \in Responses(req, k) :
      \/ IsNominal(req, r)
      \/ /\ faultsLeft
         /\ IF ~alone THEN IsPlainFailure(r)
            ELSE IF batch THEN IsBatchAnswer(r)
            ELSE TRUE }

(* ----------------------------- fetchApi -------------------------------- *)
NoError == [ kind |-> "none", status |-> 0, statusText |-> "", body |-> NoBody, message |-> "" ]

\* new Error(message)
PlainError(message) ==
  [ kind |-> "Error", status |-> 0, statusText |-> "", body |-> NoBody, message |-> message ]

\* new Error(`Miro API error: ${status} ${statusText} - ${errorText}`)
ApiError(resp) ==
  [ kind |-> "Error", status |-> resp.status, statusText |-> resp.statusText,
    body |-> resp.body, message |-> "Miro API error" ]

\* the TypeError JavaScript throws for a property read of `undefined`
TypeError(message) ==
  [ kind |-> "TypeError", status |-> 0, statusText |-> "", body |-> NoBody,
    message |-> message ]

\* response.json() rejects when the body is not a JSON document
JsonSyntaxError ==
  [ kind |-> "SyntaxError", status |-> 0, statusText |-> "", body |-> NoBody,
    message |-> "invalid json response body" ]

\* faulty variant: only 4xx and 5xx count as failures
ResponseOkBelow400(status) == status >= 200 /\ status < 400

\* response.ok
ResponseOk(status) == status >= 200 /\ status <= 299

\* faulty variant: the DELETE clause is missing
EmptyResultOnly204(status, method) == status = 204

\* `response.status === 204 || options.method === 'DELETE'`
EmptyResult(status, method) == status = 204 \/ method = "DELETE"

\* faulty variant: every body is decoded as JSON
IsJsonContentTypeAlways(ct) == TRUE

\* `contentType && contentType.includes('application/json')`
IsJsonContentType(ct) == ct = "application/json; charset=utf-8"

Thrown(err)  == [ kind |-> "throw", error |-> err, value |-> EmptyObject, parsed |-> FALSE ]
Value(v, p)  == [ kind |-> "value", error |-> NoError, value |-> v, parsed |-> p ]

\* what fetchApi does with the response to a request of the given method
FetchApi(method, resp) ==
  IF ~ResponseOk(resp.status) THEN Thrown(ApiError(resp))
  ELSE IF EmptyResult(resp.status, method) THEN Value(EmptyObject, FALSE)
  ELSE IF IsJsonContentType(resp.contentType)
    THEN IF resp.body.kind = "json"
           THEN Value(resp.body.value, TRUE)
           ELSE Thrown(JsonSyntaxError)
  ELSE Value(EmptyObject, FALSE)

\* the responses whose body fetchApi awaits: `await response.text()` of a response
\* that is not ok, `response.json()` of an ok one with a JSON content type; for
\* the others fetchApi returns `{}` in the turn in which fetch resolved
ReadsBody(method, resp) ==
  \/ ~ResponseOk(resp.status)
  \/ ~EmptyResult(resp.status, method) /\ IsJsonContentType(resp.contentType)

(* ----------------------------- the process ----------------------------- *)
\* a command-line option or environment variable that is not set
Absent == "<absent>"

\* the values of --token and of MIRO_OAUTH_TOKEN (the image sets the variable to "")
ArgvTokens == { Absent, "", "tokenA" }
EnvTokens  == { Absent, "", "tokenB" }

\* the values JavaScript takes for false in `a || b` and `!a`
Falsy(v) == v = Absent \/ v = ""

\* faulty variant: the environment variable wins over the option
ResolveTokenEnvFirst(argvToken, envToken) ==
  IF Falsy(envToken) THEN argvToken ELSE envToken

\* `(argv.token as string) || process.env.MIRO_OAUTH_TOKEN`
ResolveToken(argvToken, envToken) ==
  IF Falsy(argvToken) THEN envToken ELSE argvToken

\* faulty variant: only an unset token stops the process, an empty one does not
TokenMissingOnlyAbsent(oauthToken) == oauthToken = Absent

\* `if (!oauthToken)`
TokenMissing(oauthToken) == Falsy(oauthToken)

\* the process as it is launched, before index.ts has run
Launched(argvToken, envToken) ==
  [ state |-> "starting",     \* starting, running, exited
    argvToken |-> argvToken, envToken |-> envToken,
    client |-> FALSE,         \* new MiroClient(...) has run
    token |-> Absent,         \* MiroClient.token
    exitCode |-> 0 ]

\* the top level of index.ts: resolve the token, exit with 1 when there is none,
\* else construct the client and register the handlers
Started(p) ==
  LET oauthToken == ResolveToken(p.argvToken, p.envToken) IN
  IF TokenMissing(oauthToken)
    THEN [ p EXCEPT !.state = "exited", !.exitCode = 1 ]
    ELSE [ p EXCEPT !.state = "running", !.client = TRUE, !.token = oauthToken ]

\* faulty variant: the token is sent without the Bearer scheme
HeadersWithoutScheme(token) ==
  [ Authorization |-> << token >>, ContentType |-> "application/json" ]

\* the headers fetchApi sets on every request
Headers(token) ==
  [ Authorization |-> << "Bearer", token >>, ContentType |-> "application/json" ]

(* --------------------------- the requests ------------------------------ *)
\* no `params` option: the url has no query string
NoQuery == [ given |-> FALSE, params |-> {} ]

\* `if (x) params.x = x`: of the name/value pairs given, those whose value
\* JavaScript takes for true; `url += "?" + searchParams` even when none is left
Params(opts) == [ given |-> TRUE, params |-> { p \in opts : ~Falsy(p[2]) } ]

\* fetch(`https://api.miro.com/v2/boards/${board}/${segment}[/${id}]`, {method})
\* elem is the index of the batch element the request was issued for
\* body is "none" for a request sent without one
\* board is "none" for a path outside /boards/{b} (/boards, /webhooks), segment is
\* "" for the board itself, tag is the id in a trailing /tags/{tag} (0 for none)
Request(method, board, segment, id, elem) ==
  [ method |-> method, board |-> board, segment |-> segment, id |-> id, elem |-> elem,
    body |-> "none", tag |-> 0, query |-> NoQuery ]

\* JSON.stringify of a payload
JsonStringify(data) == "json:" \o data

\* `options.body ? JSON.stringify(options.body) : undefined`: no body for a payload
\* that JavaScript takes for false (none given, or "")
RequestBody(data) == IF Falsy(data) THEN "none" ELSE JsonStringify(data)

\* faulty variant: the read asks for the collection, not for the item
GetItemRequestWithoutId(board, id, elem) == Request("GET", board, "items", 0, elem)

\* getItem: GET /boards/{b}/items/{id}
GetItemRequest(board, id, elem) == Request("GET", board, "items", id, elem)

\* faulty variant: every update goes to the generic item endpoint
UpdateEndpointGeneric(type) == "items"

\* faulty variant: an item of an unrecognized type is not updated through /items
UpdateEndpointNoFallback(type) ==
  IF type \in RoutedTypes THEN TypeSegment(type) ELSE "unsupported"

\* updateItem after getItem: PATCH to the endpoint of the fetched type
UpdateEndpoint(type) == TypeSegment(type)

PatchRequest(board, type, id, data, elem) ==
  [ Request("PATCH", board, UpdateEndpoint(type), id, elem) EXCEPT
      !.body = RequestBody(data) ]

\* faulty variant: the delete is routed by the type of the item
DeleteItemRequestTyped(board, id, elem) ==
  Request("DELETE", board, TypeSegment(RemoteTypeOf(id)), id, elem)

\* deleteItem: DELETE /boards/{b}/items/{id}
DeleteItemRequest(board, id, elem) == Request("DELETE", board, "items", id, elem)

\* createStickyNote, createShape, ...: POST /boards/{b}/<segment of the type>
\* (the body the operation builds from the fields of the element is not detailed)
CreateRequest(board, type, elem) ==
  [ Request("POST", board, TypeSegment(type), 0, elem) EXCEPT !.body = "built" ]

\* createConnector: POST /boards/{b}/connectors, without any read of the end items
\* faulty variant: createConnector reads the items before it creates the connector
ConnectorRequestAfterRead(board, elem) == Request("GET", board, "items", 0, elem)

ConnectorRequest(board, elem) ==
  [ Request("POST", board, "connectors", 0, elem) EXCEPT !.body = "built" ]

\* getBoardItems: GET /boards/{b}/items?type=..&parent_item_id=..&limit=..
BoardItemsRequest(board, opts, elem) ==
  [ Request("GET", board, "items", 0, elem) EXCEPT !.query = Params(opts) ]

\* searchItems: GET /boards/{b}/items?query=.., the query passed on as it is
SearchRequest(board, opts, elem) ==
  [ Request("GET", board, "items", 0, elem) EXCEPT
      !.query = [ given |-> TRUE, params |-> opts ] ]

\* getBoards: GET /boards?query=..&team_id=..
BoardsRequest(opts, elem) ==
  [ Request("GET", "none", "boards", 0, elem) EXCEPT !.query = Params(opts) ]

\* a request with the body the operation builds from its arguments (POST, PATCH)
\* or without one (GET, DELETE)
WithBody(req) ==
  [ req EXCEPT !.body = IF req.method \in { "POST", "PATCH" } THEN "built" ELSE "none" ]

\* createBoard: POST /boards
CreateBoardRequest(elem) == WithBody(Request("POST", "none", "boards", 0, elem))

\* getBoard, updateBoard, deleteBoard: GET, PATCH, DELETE /boards/{b}
BoardRequest(method, board, elem) == WithBody(Request(method, board, "", 0, elem))

\* copyBoard: POST /boards/{b}/copy
CopyBoardRequest(board, elem) == WithBody(Request("POST", board, "copy", 0, elem))

\* getTags, createTag, createGroup, getBoardMembers, shareBoardWithUser:
\* GET or POST /boards/{b}/<segment>
CollectionRequest(method, board, segment, elem) ==
  WithBody(Request(method, board, segment, 0, elem))

\* attachTagToItem, removeTagFromItem: POST, DELETE /boards/{b}/items/{id}/tags/{tag},
\* both without a body
TagOfItemRequest(method, board, id, tag, elem) ==
  [ Request(method, board, "items", id, elem) EXCEPT !.tag = tag ]

\* updateStickyNote, updateShape, ...: PATCH /boards/{b}/<segment of the type>/{id}
\* with `body: data`
TypedUpdateRequest(board, type, id, data, elem) ==
  [ Request("PATCH", board, TypeSegment(type), id, elem) EXCEPT
      !.body = RequestBody(data) ]

\* updateTag, updateGroup, updateBoardMember: PATCH /boards/{b}/<segment>/{id} with
\* `body: data`; deleteTag, deleteGroup, removeBoardMember: DELETE of the same;
\* updateWebhook, deleteWebhook: PATCH, DELETE /webhooks/{id}
MemberRequest(op, board, id, data, elem) ==
  LET method == IF op \in VoidOps THEN "DELETE" ELSE "PATCH"
      segment == MemberSegment[op]
  IN  [ Request(method, IF segment = "webhooks" THEN "none" ELSE board, segment, id,
                elem) EXCEPT
          !.body = IF method = "PATCH" THEN RequestBody(data) ELSE "none" ]

\* getWebhooks, createWebhook: GET, POST /webhooks
WebhooksRequest(method, elem) == WithBody(Request(method, "none", "webhooks", 0, elem))

\* fetch(url, {method, headers: {Authorization, Content-Type}}): the request as
\* it goes out, with the headers made from the token of the client
Fetch(req, token) ==
  [ f \in DOMAIN req \cup { "headers" } |->
      IF f = "headers" THEN Headers(token) ELSE req[f] ]

(* -------------------------- an invocation ------------------------------ *)
\* no reply was sent to the caller of the tool yet
\* kind is "tool" for the result of a tool, "resource" for the result of a
\* resource handler, "http" for the response of the route (code is its status) and
\* "rejection" when the handler threw and nothing in index.ts caught it
NoReply ==
  [ kind |-> "none", code |-> 0, sent |-> FALSE, isError |-> FALSE, text |-> "",
    n |-> 0, error |-> NoError, value |-> Undefined ]

NoResponse ==
  [ status |-> 0, statusText |-> "", contentType |-> "none", body |-> NoBody ]

NoLast == [ call |-> 0, resp |-> NoResponse, out |-> Value(EmptyObject, FALSE) ]

IdleInv ==
  [ status   |-> "idle",      \* idle, running, waiting, reading, returned, threw
    op       |-> "none",
    board    |-> "none",
    token    |-> Absent,      \* this.token of the client the operation runs on
    input    |-> << >>,       \* the batch, or the one argument of a single operation
    i        |-> 1,           \* the element the loop is at
    results  |-> << >>,       \* createdItems / updatedItems / createdConnectors
    value    |-> Undefined,   \* the value a single operation returned
    returns  |-> "nothing",   \* what the call resolved to: list, value or void
    errors   |-> << >>,       \* the keys console.error reported
    calls    |-> << >>,       \* the requests issued, in order
    pending  |-> {},          \* the indices in calls of the requests in flight
    awaiting |-> 0,           \* the index in calls of the request awaited
    reading  |-> NoResponse,  \* the response whose body is being read
    faults   |-> 0,
    error    |-> NoError,     \* the error the invocation threw
    last     |-> NoLast,      \* single operations: the last response received and
                              \* what fetchApi made of it
    entry    |-> "none",      \* tool, resources/list, resources/read, route, client
    tool     |-> "none",      \* request.params.name
    reply    |-> NoReply ]    \* what the tool handler returned to its caller

\* faulty variant: the size check rejects a batch that is exactly at the limit
SizeLimitAtLimit(n) == n >= BatchLimit

\* faulty variant: the size check lets one element too many through
SizeLimitOffByOne(n) == n > BatchLimit + 1

\* faulty variant: the size check also rejects the empty batch
SizeLimitRejectsEmpty(n) == n = 0 \/ n > BatchLimit

\* `items.length > 20`
SizeLimitExceeded(n) == n > BatchLimit

\* the fixed message of each bulk operation's size check
SizeLimitMessage(op) ==
  CASE op = "bulkCreateItems"      -> "Cannot create more than 20 items in a single bulk operation"
    [] op = "bulkUpdateItems"      -> "Cannot update more than 20 items in a single bulk operation"
    [] op = "bulkDeleteItems"      -> "Cannot delete more than 20 items in a single bulk operation"
    [] op = "bulkCreateConnectors" -> "Cannot create more than 20 connectors at once"

\* what the operation resolves to: its result list, the value of fetchApi, or
\* nothing (Promise<void>)
ReturnKind(op) ==
  CASE op \in { "bulkCreateItems", "bulkUpdateItems", "bulkCreateConnectors" } -> "list"
    [] op \in VoidOps -> "void"
    [] OTHER -> "value"

\* what a single operation makes of the value of fetchApi: getBoardItems, getTags,
\* ... return `response.data` (the list is identified with the document that
\* holds it), the operations declared Promise<void> return nothing, the others
\* return the value
ResultOf(op, v) ==
  CASE ReturnKind(op) = "void" -> Undefined
    [] op \in DataOps          -> IF v = EmptyObject THEN Undefined ELSE v
    [] OTHER                   -> v

\* `for (const x of xs)`: is there an element at index i
MoreElements(i, n) == i <= n

\* faulty variant: updateItem does not await getItem
AwaitsCallExceptUpdate(op) == op # "updateItem"

\* faulty variant: bulkUpdateItems does not await updateItem
AwaitsCallExceptBulkUpdate(op) == op # "bulkUpdateItems"

\* faulty variant: bulkDeleteItems does not await deleteItem
AwaitsCallExceptDelete(op) == op # "bulkDeleteItems"

\* faulty variant: bulkCreateConnectors does not await createConnector
AwaitsCallExceptConnectors(op) == op # "bulkCreateConnectors"

\* `await` of the client call: the loop goes on only when the request has settled
AwaitsCall(op) == TRUE

\* the identifying key the catch block reports
ElementKey(op, e) ==
  CASE op = "bulkCreateItems"      -> << "type", e.type >>
    [] op = "bulkUpdateItems"      -> << "id", e.id >>
    [] op = "bulkDeleteItems"      -> << "id", e >>
    [] op = "bulkCreateConnectors" -> << "from-to", e.startItemId, e.endItemId >>

\* faulty variant: the catch block reports nothing
CatchElementSilent(st, err) == [ st EXCEPT !.i = @ + 1 ]

\* faulty variant: the catch block throws the element's error on
CatchElementRethrow(st, err) ==
  [ st EXCEPT !.status = "threw", !.error = err ]

\* faulty variant: the catch block pushes a placeholder for the failed element
CatchElementPlaceholder(st, err) ==
  [ st EXCEPT !.errors = Append(@, [ elem |-> st.i,
                                     key  |-> ElementKey(st.op, st.input[st.i]) ]),
              !.results = Append(@, [ elem |-> st.i, value |-> EmptyObject ]),
              !.i = @ + 1 ]

\* faulty variant: the catch block tries the element again after a remote failure
CatchElementRetry(st, err) ==
  [ st EXCEPT !.errors = Append(@, [ elem |-> st.i,
                                     key  |-> ElementKey(st.op, st.input[st.i]) ]),
              !.i = IF err.status = 0 THEN @ + 1 ELSE @ ]

\* `catch (error) { console.error(...) }`: report the key, go to the next element
\* (elem is the index of the element, kept to tell the records apart)
CatchElement(st, err) ==
  [ st EXCEPT !.errors = Append(@, [ elem |-> st.i,
                                     key  |-> ElementKey(st.op, st.input[st.i]) ]),
              !.i = @ + 1 ]

\* faulty variant: the result list is shared by the invocations that are running
PushResultShared(st, v) ==
  LET shared == (IF "h1" \in DOMAIN inv THEN inv["h1"].results ELSE << >>)
                  \o (IF "h2" \in DOMAIN inv THEN inv["h2"].results ELSE << >>)
  IN  [ st EXCEPT !.results = Append(shared, [ elem |-> st.i, value |-> v ]),
                  !.i = @ + 1 ]

\* faulty variant: after the push the loop waits for a request it never issued
PushResultAndWait(st, v) ==
  [ st EXCEPT !.results = Append(@, [ elem |-> st.i, value |-> v ]), !.i = @ + 1,
              !.status = "waiting", !.awaiting = 0 ]

\* faulty variant: the result goes to the front of the list
PushResultFront(st, v) ==
  [ st EXCEPT !.results = << [ elem |-> st.i, value |-> v ] >> \o @, !.i = @ + 1 ]

\* `createdItems.push(createdItem)`, then the next element
\* (elem is the index of the element whose iteration pushed the value)
PushResult(st, v) ==
  [ st EXCEPT !.results = Append(@, [ elem |-> st.i, value |-> v ]), !.i = @ + 1 ]

\* the first request of the element (or single operation) the invocation is at
FirstRequest(st) ==
  LET e == st.input[st.i] IN
  CASE st.op = "bulkCreateItems"      -> CreateRequest(st.board, e.type, st.i)
    [] st.op = "bulkUpdateItems"      -> GetItemRequest(st.board, e.id, st.i)
    [] st.op = "bulkDeleteItems"      -> DeleteItemRequest(st.board, e, st.i)
    [] st.op = "bulkCreateConnectors" -> ConnectorRequest(st.board, st.i)
    [] st.op = "getItem"              -> GetItemRequest(st.board, e.id, st.i)
    [] st.op = "updateItem"           -> GetItemRequest(st.board, e.id, st.i)
    [] st.op = "deleteItem"           -> DeleteItemRequest(st.board, e.id, st.i)
    [] st.op = "createConnector"      -> ConnectorRequest(st.board, st.i)
    [] st.op \in CreateOps \ { "createConnector" } ->
         CreateRequest(st.board, CreatedType(st.op), st.i)
    [] st.op = "getBoardItems"        -> BoardItemsRequest(st.board, e.opts, st.i)
    [] st.op = "getFrames"            ->
         BoardItemsRequest(st.board, { << "type", "frame" >> }, st.i)
    [] st.op = "getItemsInFrame"      ->
         BoardItemsRequest(st.board, { << "parent_item_id", ToString(e.id) >> }, st.i)
    [] st.op = "searchItems"          -> SearchRequest(st.board, e.opts, st.i)
    [] st.op = "getBoards"            -> BoardsRequest(e.opts, st.i)
    [] st.op = "getBoard"             -> BoardRequest("GET", st.board, st.i)
    [] st.op = "createBoard"          -> CreateBoardRequest(st.i)
    [] st.op = "updateBoard"          -> BoardRequest("PATCH", st.board, st.i)
    [] st.op = "copyBoard"            -> CopyBoardRequest(st.board, st.i)
    [] st.op = "deleteBoard"          -> BoardRequest("DELETE", st.board, st.i)
    [] st.op = "getTags"              -> CollectionRequest("GET", st.board, "tags", st.i)
    [] st.op = "createTag"            -> CollectionRequest("POST", st.board, "tags", st.i)
    [] st.op = "attachTagToItem"      ->
         TagOfItemRequest("POST", st.board, e.id, e.tag, st.i)
    [] st.op = "removeTagFromItem"    ->
         TagOfItemRequest("DELETE", st.board, e.id, e.tag, st.i)
    [] st.op = "createGroup"          -> CollectionRequest("POST", st.board, "groups", st.i)
    [] st.op = "getBoardMembers"      -> CollectionRequest("GET", st.board, "members", st.i)
    [] st.op = "shareBoardWithUser"   -> CollectionRequest("POST", st.board, "members", st.i)
    [] st.op = "createWebhook"        -> WebhooksRequest("POST", st.i)
    [] st.op = "getWebhooks"          -> WebhooksRequest("GET", st.i)
    [] st.op \in TypedUpdateOps       ->
         TypedUpdateRequest(st.board, UpdatedType(st.op), e.id, e.data, st.i)
    [] st.op \in MemberOps            -> MemberRequest(st.op, st.board, e.id, e.data, st.i)

\* faulty variant: the switch has no default, every type is sent to the service
ThrowsLocallyNever(st) == FALSE

\* bulkCreateItems throws inside the `try`, before any request: the `default:` of
\* the switch for a type it has no case for, and in each case the read of
\* `item.data.content` (.shape, .title, .url) for an element that has no data
ThrowsLocally(st) ==
  /\ st.op = "bulkCreateItems"
  /\ \/ st.input[st.i].type \notin CreatableTypes
     \/ st.input[st.i].data = Absent

\* the error thrown before the request: the switch on the type comes first
LocalError(st) ==
  IF st.input[st.i].type \notin CreatableTypes
    THEN PlainError("Unsupported item type")
    ELSE TypeError("Cannot read properties of undefined")

RECURSIVE Continue(_)
RECURSIVE Issue(_, _)

\* run the invocation up to its next await, return or throw
Continue(st) ==
  IF st.status # "running" THEN st
  ELSE IF ~MoreElements(st.i, Len(st.input))
    THEN [ st EXCEPT !.status = "returned", !.returns = ReturnKind(st.op) ]
  ELSE IF ThrowsLocally(st)
    THEN Continue(CatchElement(st, LocalError(st)))
  ELSE Issue(st, FirstRequest(st))

\* call fetch and await it
Issue(st, req) ==
  LET k   == Len(st.calls) + 1
      st1 == [ st EXCEPT !.calls = Append(@, Fetch(req, st.token)),
                         !.pending = @ \cup {k} ]
  IN  IF AwaitsCall(st.op)
        THEN [ st1 EXCEPT !.status = "waiting", !.awaiting = k ]
        ELSE Continue([ st1 EXCEPT !.i = @ + 1 ])

\* the call of an operation on a client constructed with `token`: the code up to
\* its first await
CallOn(token, op, board, input) ==
  LET st == [ IdleInv EXCEPT !.status = "running", !.op = op, !.board = board,
                             !.token = token, !.input = input ]
  IN  IF op \in BulkOps /\ SizeLimitExceeded(Len(input))
        THEN [ st EXCEPT !.status = "threw", !.error = PlainError(SizeLimitMessage(op)) ]
        ELSE Continue(st)

\* the call of an operation on `miroClient`, the one client of index.ts, which
\* was constructed with the token resolved at startup
Call(op, board, input) == CallOn(proc.token, op, board, input)

\* fetchApi has the response resp to the awaited request k, and its body where it
\* reads one: the code up to the next await
Resume(st, k, resp) ==
  LET req == st.calls[k]
      out == FetchApi(req.method, resp)
      st1 == [ st EXCEPT !.status = "running", !.awaiting = 0, !.reading = NoResponse,
                         !.last = IF st.op \in BulkOps THEN @
                                  ELSE [ call |-> k, resp |-> resp, out |-> out ] ]
  IN  IF st.op \in BulkOps
        THEN IF out.kind = "throw" THEN Continue(CatchElement(st1, out.error))
             ELSE IF st.op = "bulkUpdateItems" /\ req.method = "GET"
               THEN Issue(st1, PatchRequest(st.board, out.value.type, req.id,
                                            st.input[st.i].data, st.i))
             ELSE IF st.op = "bulkDeleteItems" THEN Continue([ st1 EXCEPT !.i = @ + 1 ])
             ELSE Continue(PushResult(st1, out.value))
        ELSE IF out.kind = "throw"
               THEN [ st1 EXCEPT !.status = "threw", !.error = out.error ]
             ELSE IF st.op = "updateItem" /\ req.method = "GET"
               THEN Issue(st1, PatchRequest(st.board, out.value.type, req.id,
                                            st.input[st.i].data, st.i))
             ELSE Continue([ st1 EXCEPT !.i = @ + 1,
                                        !.value = ResultOf(st.op, out.value) ])

(* ---------------------------- the handlers ----------------------------- *)
\* the `case` of the CallToolRequestSchema handler that calls the operation
ToolOf(op) ==
  CASE op = "bulkCreateItems"      -> "bulk_create_items"
    [] op = "bulkUpdateItems"      -> "bulk_update_items"
    [] op = "bulkDeleteItems"      -> "bulk_delete_items"
    [] op = "bulkCreateConnectors" -> "bulk_create_connectors"
    [] op = "getItem"              -> "get_item"
    [] op = "updateItem"           -> "update_item"
    [] op = "deleteItem"           -> "delete_item"
    [] op = "createConnector"      -> "create_connector"
    [] op = "createStickyNote"     -> "create_sticky_note"
    [] op = "createShape"          -> "create_shape"
    [] op = "createText"           -> "create_text"
    [] op = "createCard"           -> "create_card"
    [] op = "createFrame"          -> "create_frame"
    [] op = "createImage"          -> "create_image"
    [] op = "createDocument"       -> "create_document"
    [] op = "createEmbed"          -> "create_embed"
    [] op = "getBoardItems"        -> "get_board_items"
    [] op = "getFrames"            -> "get_frames"
    [] op = "getItemsInFrame"      -> "get_items_in_frame"
    [] op = "searchItems"          -> "search_items"
    [] op = "getBoards"            -> "list_boards"
    [] op = "getBoard"             -> "get_board"
    [] op = "createBoard"          -> "create_board"
    [] op = "updateBoard"          -> "update_board"
    [] op = "copyBoard"            -> "copy_board"
    [] op = "deleteBoard"          -> "delete_board"
    [] op = "getTags"              -> "get_tags"
    [] op = "createTag"            -> "create_tag"
    [] op = "attachTagToItem"      -> "attach_tag_to_item"
    [] op = "removeTagFromItem"    -> "remove_tag_from_item"
    [] op = "createGroup"          -> "create_group"
    [] op = "getBoardMembers"      -> "get_board_members"
    [] op = "shareBoardWithUser"   -> "share_board_with_user"
    [] op = "createWebhook"        -> "create_webhook"
    [] op = "getWebhooks"          -> "get_webhooks"

BulkTools == { ToolOf(op) : op \in BulkOps }

\* the tools whose text is JSON.stringify of the value the operation returned
JsonTools ==
  { "get_item", "get_board_items", "get_board", "get_frames", "get_items_in_frame",
    "get_tags", "get_board_members", "get_webhooks", "search_items" }

\* the tools that read `.length` of the list the operation returned
LengthTools == { "list_boards", "search_items" }

\* the tools that put an id of their arguments into the text
ArgumentTools ==
  { "update_item", "delete_item", "attach_tag_to_item", "remove_tag_from_item" }

\* a name that no `case` of the handler matches
UnknownTools == { "no_such_tool" }

\* the text of the reply of a tool whose operation returned; %n stands for the
\* number or id put into the text, JSON for JSON.stringify of the value
ToolText(tool) ==
  CASE tool = "bulk_create_items"      -> "Created %n items on board b"
    [] tool = "bulk_update_items"      -> "Updated %n items on board b"
    [] tool = "bulk_delete_items"      -> "Deleted %n items from board b"
    [] tool = "bulk_create_connectors" -> "Created %n connectors on board b"
    [] tool = "list_boards"            -> "Found %n board(s):"
    [] tool = "search_items"           -> "Found %n items matching q: JSON"
    [] tool \in JsonTools              -> "JSON"
    [] tool = "create_board"           -> "Created board name with ID: %n"
    [] tool = "update_board"           -> "Updated board name (ID: %n)"
    [] tool = "copy_board"             -> "Copied board to name with ID: %n"
    [] tool = "delete_board"           -> "Deleted board b"
    [] tool = "update_item"            -> "Updated item %n"
    [] tool = "delete_item"            -> "Deleted item %n"
    [] tool = "create_connector"       -> "Created connector with ID: %n"
    [] tool = "create_sticky_note"     -> "Created sticky note with ID: %n"
    [] tool = "create_shape"           -> "Created s shape with ID: %n"
    [] tool = "create_text"            -> "Created text item with ID: %n"
    [] tool = "create_card"            -> "Created card with ID: %n"
    [] tool = "create_frame"           -> "Created frame with ID: %n"
    [] tool = "create_image"           -> "Created image with ID: %n"
    [] tool = "create_document"        -> "Created document with ID: %n"
    [] tool = "create_embed"           -> "Created embed with ID: %n"
    [] tool = "create_tag"             -> "Created tag title with ID: %n"
    [] tool = "attach_tag_to_item"     -> "Attached tag t to item %n"
    [] tool = "remove_tag_from_item"   -> "Removed tag t from item %n"
    [] tool = "create_group"           -> "Created group with ID: %n"
    [] tool = "share_board_with_user"  -> "Shared board with email as role"
    [] tool = "create_webhook"         -> "Created webhook with ID: %n"

\* the number a tool puts into its text: the length of the list the operation
\* returned (0 for a list of the service, whose length is not detailed),
\* `itemIds.length` for bulk_delete_items, the itemId argument, or the id of the
\* value returned (0 when the value has no id, and for a text without a number)
ToolNumber(st) ==
  CASE st.tool \in { "bulk_create_items", "bulk_update_items",
                     "bulk_create_connectors" } -> Len(st.results)
    [] st.tool = "bulk_delete_items" -> Len(st.input)
    [] st.tool \in ArgumentTools -> st.input[1].id
    [] st.tool \in JsonTools \cup LengthTools
                     \cup { "delete_board", "share_board_with_user" } -> 0
    [] OTHER -> st.value.id

\* `return { content: [{ type: "text", text }] }`
ToolResult(st) ==
  [ kind |-> "tool", code |-> 0, sent |-> TRUE, isError |-> FALSE,
    text |-> ToolText(st.tool), n |-> ToolNumber(st), error |-> NoError,
    value |-> IF st.tool \in JsonTools THEN st.value ELSE Undefined ]

\* faulty variant: the error reply is not marked as an error
CatchToolErrorUnmarked(err) ==
  [ kind |-> "tool", code |-> 0, sent |-> TRUE, isError |-> FALSE, text |-> "Error: ",
    n |-> 0, error |-> err, value |-> Undefined ]

\* the catch of the handler: `text: `Error: ${error.message}`, isError: true`
CatchToolError(err) ==
  [ kind |-> "tool", code |-> 0, sent |-> TRUE, isError |-> TRUE, text |-> "Error: ",
    n |-> 0, error |-> err, value |-> Undefined ]

\* `boards.length`, `boards.map`, `items.length` of a list that is `undefined`
\* (the operation returned `({}).data`) throws a TypeError
ReadsUndefined(st) ==
  /\ st.value = Undefined
  /\ \/ st.entry = "tool" /\ st.tool \in LengthTools
     \/ st.entry = "resources/list"

\* the tool handler after the operation it awaited has returned or thrown: the
\* text is made inside the `try`, so that an error of making it is caught as well
ToolReply(st) ==
  IF st.status = "threw" THEN CatchToolError(st.error)
  ELSE IF ReadsUndefined(st)
    THEN CatchToolError(TypeError("Cannot read properties of undefined"))
  ELSE ToolResult(st)

\* the handler rejects: neither resource handler has a `try`
Rejection(err) ==
  [ kind |-> "rejection", code |-> 0, sent |-> FALSE, isError |-> FALSE, text |-> "",
    n |-> 0, error |-> err, value |-> Undefined ]

\* `return { resources: boards.map(...) }`, `return { contents: [{ uri, mimeType,
\* text: JSON.stringify(items) }] }`
ResourceResult(st) ==
  [ kind |-> "resource", code |-> 0, sent |-> TRUE, isError |-> FALSE, text |-> "JSON",
    n |-> 0, error |-> NoError, value |-> st.value ]

\* the resource handlers after the operation they awaited has returned or thrown
ResourceReply(st) ==
  IF st.status = "threw" THEN Rejection(st.error)
  ELSE IF ReadsUndefined(st)
    THEN Rejection(TypeError("Cannot read properties of undefined"))
  ELSE ResourceResult(st)

\* POST /api/create-shape: `res.json({ success: true, message, item })`, and in the
\* catch `res.status(500).json({ success: false, error: error.message })`
RouteReply(st) ==
  IF st.status = "threw"
    THEN [ kind |-> "http", code |-> 500, sent |-> TRUE, isError |-> FALSE,
           text |-> "success: false", n |-> 0, error |-> st.error, value |-> Undefined ]
    ELSE [ kind |-> "http", code |-> 200, sent |-> TRUE, isError |-> FALSE,
           text |-> "Created s shape with ID: %n", n |-> st.value.id,
           error |-> NoError, value |-> st.value ]

\* the handler after the operation it awaited has returned or thrown; an
\* operation called on the client directly has no handler that replies
Respond(st) ==
  IF st.status \notin { "returned", "threw" } \/ st.entry = "client" THEN st
  ELSE [ st EXCEPT !.reply = CASE st.entry = "tool"  -> ToolReply(st)
                               [] st.entry = "route" -> RouteReply(st)
                               [] OTHER              -> ResourceReply(st) ]

\* the resource uris a client asks for: of a board, of something else, and a
\* string that is no url
Uris ==
  { [ parses |-> TRUE,  prefix |-> "miro://board/", rest |-> "b1" ],
    [ parses |-> TRUE,  prefix |-> "https://miro.com/", rest |-> "b1" ],
    [ parses |-> FALSE, prefix |-> "", rest |-> "b1" ] }

\* `request.params.uri.startsWith("miro://board/")`
IsBoardUri(uri) == uri.prefix = "miro://board/"

\* `url.pathname.substring(1)`: the host of miro://board/b1 is "board", its
\* pathname "/b1"
BoardOfUri(uri) == uri.rest

\* the arguments of a single operation: the id of an item, a payload, the id of a
\* tag and the optional name/value pairs, each where the operation takes one
Args(id, data, tag, opts) == [ id |-> id, data |-> data, tag |-> tag, opts |-> opts ]

NoArgs == Args(0, Absent, 0, {})

\* the CallToolRequestSchema handler from its call up to its first await or its
\* reply
HandleTool(op, board, input) ==
  LET st == Call(op, board, input) IN
  Respond([ st EXCEPT !.entry = "tool", !.tool = ToolOf(op) ])

\* `default: throw new Error(`Unknown tool: ${request.params.name}`)`
HandleUnknownTool(tool) ==
  Respond([ IdleInv EXCEPT !.entry = "tool", !.tool = tool, !.status = "threw",
                           !.error = PlainError("Unknown tool: " \o tool) ])

\* an operation called on `new MiroClient(token)` by a caller other than
\* index.ts, which exports nothing: the caller constructs its own client
CallOperation(token, op, board, input) ==
  [ CallOn(token, op, board, input) EXCEPT !.entry = "client" ]

\* the ListResourcesRequestSchema handler: `await miroClient.getBoards()`
HandleListResources ==
  LET st == Call("getBoards", "none", << NoArgs >>) IN
  Respond([ st EXCEPT !.entry = "resources/list" ])

\* the ReadResourceRequestSchema handler: `new URL(uri)` throws for a string that
\* is no url, the handler for a uri that is not of a board, and then
\* `await miroClient.getBoardItems(boardId)`
HandleReadResource(uri) ==
  IF ~uri.parses
    THEN Respond([ IdleInv EXCEPT !.entry = "resources/read", !.status = "threw",
                                  !.error = TypeError("Invalid URL") ])
  ELSE IF ~IsBoardUri(uri)
    THEN Respond([ IdleInv EXCEPT
                     !.entry = "resources/read", !.status = "threw",
                     !.error = PlainError("Invalid Miro resource URI - must start with miro://board/") ])
  ELSE LET st == Call("getBoardItems", BoardOfUri(uri), << NoArgs >>) IN
       Respond([ st EXCEPT !.entry = "resources/read" ])

\* the route POST /api/create-shape: `await miroClient.createShape(boardId, ...)`
HandleCreateShape(board) ==
  LET st == Call("createShape", board, << NoArgs >>) IN
  Respond([ st EXCEPT !.entry = "route" ])

(* ----------------------------- the inputs ------------------------------ *)
\* the k-th element of the batch drawn with a base walks ItemTypeSeq in steps of
\* base - 1: base 1 repeats the first entry, base 2 walks through every entry
Pick(base, k) == (((base - 1) * k) % NTypes) + 1

\* which elements of a create batch come without `data` (the schema of
\* bulk_create_items requires only `type`)
Lacks(lacking, k) ==
  CASE lacking = "none" -> FALSE
    [] lacking = "odd"  -> k % 2 = 1
    [] lacking = "all"  -> TRUE

LackingOf(op) == IF op = "bulkCreateItems" THEN { "none", "odd", "all" } ELSE { "none" }

BatchInput(op, n, base, lacking) ==
  [ k \in 1..n |->
      CASE op = "bulkCreateItems"      -> [ type |-> ItemTypeSeq[Pick(base, k)],
                                            data |-> IF Lacks(lacking, k) THEN Absent
                                                     ELSE "d" ]
        [] op = "bulkUpdateItems"      -> [ id |-> Pick(base, k), data |-> "d" ]
        [] op = "bulkDeleteItems"      -> Pick(base, k)
        [] op = "bulkCreateConnectors" -> [ startItemId |-> Pick(base, k),
                                            endItemId   |-> Pick(base, k + 1) ] ]

BatchLens(alone) ==
  IF alone THEN (0..SmallLen) \cup (BatchLimit..(BatchLimit + OverLimit))
           ELSE { 0, ConcLen, BatchLimit + 1 }

\* the bases batches are drawn with: every base for a short batch of one
\* invocation at a time, the first and the last for a long one and for batches
\* that overlap
BatchBases(n, alone) == IF n < BatchLimit /\ alone THEN 1..MaxBase ELSE { 1, MaxBase }

SingleIds(alone) == IF alone THEN ItemIds ELSE 1..MaxBase

\* the payloads a caller passes: an update is given a payload or none
Payloads(op, alone) ==
  IF op \in { "updateItem", "updateStickyNote", "updateWebhook" } /\ alone
    THEN { "d", "" }
    ELSE { "d" }

\* the ids of the items that create operations have returned to handlers
CreatedIds ==
  { inv[t].value.id : t \in { u \in DOMAIN inv : /\ inv[u].op \in CreateOps
                                                /\ inv[u].status = "returned"
                                                /\ inv[u].value.id # 0 } }

\* the item ids a caller passes to an operation that takes one: ids of initial
\* items, and for a read also the ids of the items created; the id of an item,
\* tag, group, member or webhook for an operation called on the client directly
InputIds(op, alone) ==
  IF op \in ItemOps
    THEN SingleIds(alone) \cup (IF op = "getItem" THEN CreatedIds ELSE {})
  ELSE IF op \in DirectOps THEN (IF alone THEN 1..MaxBase ELSE { 1 })
  ELSE { 0 }

\* the ids of the tags of the board
TagIds == { 1 }

\* the tokens a program that imports the class constructs its client with: the
\* token index.ts was started with, or another
CallerTokens(alone) == IF alone THEN { "tokenA", "tokenX" } ELSE { "tokenX" }

InputTags(op) ==
  IF op \in { "attachTagToItem", "removeTagFromItem" } THEN TagIds ELSE { 0 }

\* the optional arguments a caller passes: query and teamId of list_boards (none,
\* both, or an empty query), type of get_board_items, query of search_items
InputOpts(op, alone) ==
  CASE op = "getBoards" ->
         IF alone THEN { {}, { << "query", "q" >>, << "team_id", "t" >> },
                         { << "query", "" >> } }
                  ELSE { { << "query", "q" >>, << "team_id", "t" >> } }
    [] op = "getBoardItems" ->
         IF alone THEN { {}, { << "type", "shape" >> } } ELSE { {} }
    [] op = "searchItems" -> { { << "query", "q" >> } }
    [] OTHER -> { {} }

(* ----------------------------- the actions ----------------------------- *)
Alone == Cardinality(DOMAIN inv) = 1

\* the handlers are registered once the client exists; an idle handler can be invoked
Free(s) == proc.state = "running" /\ inv[s].status = "idle"

\* a bulk tool is invoked: the handler calls the bulk operation of the client
InvokeBulk(s) ==
  /\ Free(s)
  /\ \E op \in BulkOps, b \in Boards, n \in BatchLens(Alone) :
     \E base \in BatchBases(n, Alone), lacking \in LackingOf(op) :
       inv' = [ inv EXCEPT ![s] = HandleTool(op, b, BatchInput(op, n, base, lacking)) ]
  /\ UNCHANGED proc

\* a tool of a single operation is invoked: the handler calls the operation of
\* the client
InvokeSingle(s) ==
  /\ Free(s)
  /\ \E op \in ServedOps, b \in Boards :
     \E id \in InputIds(op, Alone), data \in Payloads(op, Alone),
        tag \in InputTags(op), opts \in InputOpts(op, Alone) :
       inv' = [ inv EXCEPT ![s] = HandleTool(op, b, << Args(id, data, tag, opts) >>) ]
  /\ UNCHANGED proc

\* an operation that index.ts does not use is called by a program that imports
\* the class and constructs a client of its own, with a token of its own; whether
\* index.ts has started, runs or has exited plays no part
CallClient(s) ==
  /\ inv[s].status = "idle"
  /\ \E token \in CallerTokens(Alone), op \in DirectOps, b \in Boards :
     \E id \in InputIds(op, Alone), data \in Payloads(op, Alone) :
       inv' = [ inv EXCEPT ![s] =
                  CallOperation(token, op, b, << Args(id, data, 0, {}) >>) ]
  /\ UNCHANGED proc

\* a client lists the resources: the handler calls getBoards
ListResources(s) ==
  /\ Free(s)
  /\ inv' = [ inv EXCEPT ![s] = HandleListResources ]
  /\ UNCHANGED proc

\* a client reads a resource: the handler calls getBoardItems for the board of
\* the uri
ReadResource(s) ==
  /\ Free(s)
  /\ \E uri \in Uris : inv' = [ inv EXCEPT ![s] = HandleReadResource(uri) ]
  /\ UNCHANGED proc

\* POST /api/create-shape arrives: the route calls createShape
PostCreateShape(s) ==
  /\ Free(s)
  /\ \E b \in Boards : inv' = [ inv EXCEPT ![s] = HandleCreateShape(b) ]
  /\ UNCHANGED proc

\* fetch resolves: the status line and the headers of one of the answers drawn
\* for a request in flight (see ServiceResponses) have arrived.  fetchApi tests
\* `response.ok`, the 204 / DELETE clause and the content type; where it reads the
\* body it awaits again, else the handler runs on up to its next await or reply
Answer(s, alone) ==
  /\ UNCHANGED proc
  /\ \E k \in inv[s].pending :
       \E resp \in ServiceResponses(inv[s].calls[k], k, alone, inv[s].op \in BulkOps,
                                    inv[s].faults < MaxFaults) :
         LET nominal == IsNominal(inv[s].calls[k], resp)
             st      == [ inv[s] EXCEPT !.pending = @ \ {k},
                                        !.faults = IF nominal THEN @ ELSE @ + 1 ]
         IN  inv' = [ inv EXCEPT ![s] =
                        IF st.status = "waiting" /\ st.awaiting = k
                          THEN IF ReadsBody(st.calls[k].method, resp)
                                 THEN [ st EXCEPT !.status = "reading", !.reading = resp ]
                                 ELSE Respond(Resume(st, k, resp))
                          ELSE st ]

\* the remote service answers a request in flight
Settle(s) == Answer(s, Alone)

\* the body of the response has ended: `response.text()` or `response.json()`
\* settles, fetchApi throws or returns, and the handler runs on up to its next
\* await or its reply
BodyEnds(s) ==
  /\ inv[s].status = "reading"
  /\ inv' = [ inv EXCEPT ![s] = Respond(Resume(inv[s], inv[s].awaiting, inv[s].reading)) ]
  /\ UNCHANGED proc

\* a tool that does not exist is invoked
InvokeUnknown(s) ==
  /\ Free(s)
  /\ \E tool \in UnknownTools : inv' = [ inv EXCEPT ![s] = HandleUnknownTool(tool) ]
  /\ UNCHANGED proc

\* the reply has reached the caller; the handler can be invoked again
Finish(s) ==
  /\ inv[s].status \in { "returned", "threw" }
  /\ inv[s].pending = {}
  /\ inv' = [ inv EXCEPT ![s] = IdleInv ]
  /\ UNCHANGED proc

Next ==
  \E s \in DOMAIN inv :
    \/ InvokeBulk(s) \/ InvokeSingle(s) \/ InvokeUnknown(s)
    \/ ListResources(s) \/ ReadResource(s) \/ PostCreateShape(s) \/ CallClient(s)
    \/ Settle(s) \/ BodyEnds(s) \/ Finish(s)

\* the process was launched with --token and has started; one handler at a time
Init ==
  /\ proc = Started(Launched("tokenA", Absent))
  /\ inv = [ s \in { "h1" } |-> IdleInv ]

Spec == Init /\ [][Next]_vars

\* handlers that overlap
InitConc ==
  /\ proc = Started(Launched("tokenA", Absent))
  /\ inv = [ s \in Handlers |-> IdleInv ]

SpecConc == InitConc /\ [][Next]_vars

\* the batch lengths drawn where every run is followed to its end
LiveLens == (0..SmallLen) \cup { BatchLimit }

\* a bulk tool is invoked with a batch that is within the limit and whose
\* elements walk through the item types
InvokeBatch(s) ==
  /\ Free(s)
  /\ \E op \in BulkOps, b \in Boards, n \in LiveLens :
     \E lacking \in LackingOf(op) :
       inv' = [ inv EXCEPT ![s] = HandleTool(op, b, BatchInput(op, n, MaxBase, lacking)) ]
  /\ UNCHANGED proc

\* the remote service answers a request in flight as it should, or with a failure
SettlePlain(s) == Answer(s, FALSE)

NextLive ==
  \E s \in DOMAIN inv : InvokeBatch(s) \/ SettlePlain(s) \/ BodyEnds(s) \/ Finish(s)

\* every request in flight is answered in the end, every body that is read ends,
\* and the continuation of the handler that awaits it is run by the event loop
Fairness == WF_vars(SettlePlain("h1")) /\ WF_vars(BodyEnds("h1"))

\* one handler running bulk tools, every request answered in the end
SpecLive == Init /\ [][NextLive]_vars /\ Fairness

\* the top level of index.ts runs
Startup ==
  /\ proc.state = "starting"
  /\ proc' = Started(proc)
  /\ UNCHANGED inv

\* the start of the process, and then what a started process does where the
\* service answers as it should or with a plain failure
NextStart ==
  \/ Startup
  \/ \E s \in DOMAIN inv :
       \/ InvokeBatch(s) \/ InvokeSingle(s) \/ InvokeUnknown(s)
       \/ ListResources(s) \/ ReadResource(s) \/ PostCreateShape(s)
       \/ CallClient(s)
       \/ SettlePlain(s) \/ BodyEnds(s) \/ Finish(s)

\* the process from its launch, with any option and environment
InitStart ==
  /\ \E a \in ArgvTokens, e \in EnvTokens : proc = Launched(a, e)
  /\ inv = [ s \in { "h1" } |-> IdleInv ]

SpecStart == InitStart /\ [][NextStart]_vars

(* ============================ the claims =============================== *)
ListOps == { "bulkCreateItems", "bulkUpdateItems", "bulkCreateConnectors" }

\* the requests of handler s that are in flight
InFlight(s) == { << s, k >> : k \in inv[s].pending }

AllInFlight == UNION { InFlight(s) : s \in DOMAIN inv }

\* the indices of the calls an invocation issued for element k
CallsFor(st, k) == { j \in 1..Len(st.calls) : st.calls[j].elem = k }

FailedElems(st) == { st.errors[j].elem : j \in 1..Len(st.errors) }

\* C1: a bulk operation called with more than 20 elements has thrown its fixed
\* size-limit error, and has issued no request and processed no element
C1_OversizeRejected ==
  \A s \in DOMAIN inv :
    LET st == inv[s] IN
    (st.op \in BulkOps /\ Len(st.input) > BatchLimit) =>
      /\ st.status = "threw"
      /\ st.error = PlainError(SizeLimitMessage(st.op))
      /\ st.calls = << >> /\ st.pending = {}
      /\ st.results = << >> /\ st.errors = << >> /\ st.i = 1

C1_Witness ==
  \E s \in DOMAIN inv :
    /\ inv[s].op = "bulkCreateConnectors"
    /\ Len(inv[s].input) = BatchLimit + 1
    /\ inv[s].status = "threw"

\* C2: in a batch of at most 20 elements no element failure aborts the batch: the
\* call never throws, once it has returned every element has been attempted (it
\* has a request or a failure record), and a failed element has no entry in the
\* result list
C2_FailureDoesNotAbort ==
  \A s \in DOMAIN inv :
    LET st == inv[s] IN
    (st.op \in BulkOps /\ Len(st.input) <= BatchLimit) =>
      /\ st.status # "threw" /\ st.error = NoError
      /\ st.status = "returned" =>
           \A k \in 1..Len(st.input) : CallsFor(st, k) # {} \/ k \in FailedElems(st)
      /\ \A j \in 1..Len(st.results) : st.results[j].elem \notin FailedElems(st)

C2_Witness ==
  \E s \in DOMAIN inv :
    LET st == inv[s] IN
    /\ st.op = "bulkUpdateItems" /\ st.status = "returned"
    /\ Len(st.input) = BatchLimit
    /\ \E k \in FailedElems(st) : k < Len(st.input) /\ CallsFor(st, k + 1) # {}

\* C3: a create, update or connector batch of at most 20 elements in which every
\* element succeeded returns as many entries as it was given, the k-th being the
\* value fetchApi returned for the (last) request of element k
C3_AllSucceedSameLengthAndOrder ==
  \A s \in DOMAIN inv :
    LET st == inv[s] IN
    (/\ st.op \in ListOps /\ Len(st.input) <= BatchLimit
     /\ st.status = "returned" /\ st.errors = << >>) =>
      /\ st.returns = "list"
      /\ Len(st.results) = Len(st.input)
      /\ \A k \in 1..Len(st.results) :
           /\ st.results[k].elem = k
           /\ st.results[k].value.call # 0 =>
                /\ st.results[k].value.call \in CallsFor(st, k)
                /\ \A j \in CallsFor(st, k) : j <= st.results[k].value.call

C3_Witness ==
  \E s \in DOMAIN inv :
    LET st == inv[s] IN
    /\ st.op = "bulkCreateItems" /\ st.status = "returned" /\ st.errors = << >>
    /\ Len(st.input) = BatchLimit
    /\ \A k \in 1..Len(st.results) : st.results[k].value.call = k

\* C4: the result list keeps the input order and has no entry for a failed
\* element; when exactly one of n elements failed it has n - 1 entries
C4_OneFailureDropsOneEntry ==
  \A s \in DOMAIN inv :
    LET st == inv[s] IN
    (st.op \in ListOps /\ Len(st.input) <= BatchLimit) =>
      /\ \A j \in 1..(Len(st.results) - 1) :
           st.results[j].elem < st.results[j + 1].elem
      /\ \A j \in 1..Len(st.results) :
           st.results[j].elem \in 1..Len(st.input) \ FailedElems(st)
      /\ (st.status = "returned" /\ Len(st.errors) = 1) =>
           Len(st.results) = Len(st.input) - 1

C4_Witness ==
  \E s \in DOMAIN inv :
    LET st == inv[s] IN
    /\ st.op = "bulkCreateConnectors" /\ st.status = "returned"
    /\ Len(st.input) = 3 /\ Len(st.errors) = 1 /\ st.errors[1].elem = 2
    /\ Len(st.results) = 2 /\ st.results[1].elem = 1 /\ st.results[2].elem = 3

\* C5: a bulk operation called with an empty list has returned normally, with an
\* empty result and without any request
C5_EmptyBatch ==
  \A s \in DOMAIN inv :
    LET st == inv[s] IN
    (st.op \in BulkOps /\ Len(st.input) = 0) =>
      /\ st.status = "returned" /\ st.error = NoError
      /\ st.results = << >> /\ Len(st.results) = 0
      /\ st.calls = << >> /\ st.pending = {}

C5_Witness ==
  \E s \in DOMAIN inv :
    /\ inv[s].op = "bulkDeleteItems" /\ Len(inv[s].input) = 0
    /\ inv[s].status = "returned" /\ inv[s].returns = "void"

\* C6: no element is retried: each request of an invocation is for a later
\* element than the one before it (or is the PATCH that follows the GET of the same
\* element in bulkUpdateItems), so no remote operation of an element is issued
\* twice; an element has at most one failure record, and a failed element never has
\* an entry in the result list
C6_NoRetry ==
  \A s \in DOMAIN inv :
    LET st == inv[s] IN
    st.op \in BulkOps =>
      /\ \A j \in 1..(Len(st.calls) - 1) :
           \/ st.calls[j].elem < st.calls[j + 1].elem
           \/ /\ st.op = "bulkUpdateItems"
              /\ st.calls[j].elem = st.calls[j + 1].elem
              /\ st.calls[j].method = "GET" /\ st.calls[j + 1].method = "PATCH"
      /\ \A j \in 1..(Len(st.errors) - 1) : st.errors[j].elem < st.errors[j + 1].elem
      /\ \A j \in 1..Len(st.results) : st.results[j].elem \notin FailedElems(st)

C6_Witness ==
  \E s \in DOMAIN inv :
    LET st == inv[s] IN
    /\ st.op = "bulkCreateItems" /\ st.status = "returned"
    /\ \E k \in FailedElems(st) : CallsFor(st, k) # {} /\ k < Len(st.input)

\* C7: within a batch the requests are issued in input order and one at a time:
\* at most one is in flight, it is the one issued last, and every request of an
\* earlier element has settled; while the body of a response is read nothing is in
\* flight, and the response is the one to the request issued last
C7_SequentialInOrder ==
  \A s \in DOMAIN inv :
    LET st == inv[s] IN
    st.op \in BulkOps =>
      /\ Cardinality(st.pending) <= 1
      /\ \A k \in st.pending : k = Len(st.calls) /\ st.calls[k].elem = st.i
      /\ st.status = "reading" =>
           /\ st.pending = {} /\ st.awaiting = Len(st.calls)
           /\ st.calls[st.awaiting].elem = st.i
      /\ \A j \in 1..(Len(st.calls) - 1) : st.calls[j].elem <= st.calls[j + 1].elem

C7_Witness ==
  \E s \in DOMAIN inv :
    LET st == inv[s] IN
    /\ st.op = "bulkDeleteItems" /\ st.status = "waiting"
    /\ Len(st.calls) = BatchLimit /\ st.pending = { BatchLimit }

\* C8, as claimed: at most one request is in flight in the whole process
C8_OneInFlightInProcess == Cardinality(AllInFlight) <= 1

\* C8, amended: every invocation has at most one request in flight, so that the
\* requests in flight are at most as many as the invocations that are waiting
C8_OneInFlightPerInvocation ==
  /\ \A s \in DOMAIN inv :
       /\ Cardinality(inv[s].pending) <= 1
       /\ inv[s].pending # {} => inv[s].status = "waiting"
  /\ Cardinality(AllInFlight)
       <= Cardinality({ s \in DOMAIN inv : inv[s].status = "waiting" })

C8_Witness ==
  /\ Cardinality(AllInFlight) = 2
  /\ \E s, t \in DOMAIN inv :
       /\ s # t
       /\ inv[s].entry = "route" /\ inv[s].op = "createShape"
       /\ inv[s].status = "waiting"
       /\ inv[t].entry = "tool" /\ inv[t].op = "bulkCreateConnectors"
       /\ inv[t].status = "waiting"

\* C9: a single operation that received a response with a status outside 200..299
\* has thrown an error that carries the status, the status text and the raw body,
\* and has returned no value, whatever the method of the request
C9_Non2xxThrows ==
  \A s \in DOMAIN inv :
    LET st == inv[s] IN
    (/\ st.op \in SingleOps /\ st.last.call # 0
     /\ (st.last.resp.status < 200 \/ st.last.resp.status > 299)) =>
      /\ st.last.out.kind = "throw"
      /\ st.status = "threw" /\ st.returns = "nothing" /\ st.value = Undefined
      /\ st.error = st.last.out.error
      /\ st.error.kind = "Error"
      /\ st.error.status = st.last.resp.status
      /\ st.error.statusText = st.last.resp.statusText
      /\ st.error.body = st.last.resp.body

C9_Witness ==
  \E s \in DOMAIN inv :
    LET st == inv[s] IN
    /\ st.op = "updateItem" /\ st.status = "threw"
    /\ st.last.call = 2 /\ st.calls[2].method = "PATCH"
    /\ st.last.resp.status = 304 /\ st.last.resp.body.kind = "text"
    /\ st.error.status = 304

\* C10: fetchApi returns the empty object, without parsing a body, for every 2xx
\* response to a DELETE and for every 204 response; deleteItem then returns
\* normally, the same for a 204 and for a 200
C10_DeleteNormalised ==
  \A s \in DOMAIN inv :
    LET st  == inv[s]
        req == st.calls[st.last.call]
    IN
    (/\ st.op \in SingleOps /\ st.last.call # 0
     /\ \/ st.last.resp.status = 204
        \/ /\ req.method = "DELETE"
           /\ st.last.resp.status >= 200 /\ st.last.resp.status <= 299) =>
      /\ st.last.out = Value(EmptyObject, FALSE)
      /\ st.status # "threw" /\ st.error = NoError
      /\ st.op = "deleteItem" =>
           st.status = "returned" /\ st.returns = "void" /\ st.value = Undefined

C10_Witness ==
  \E s \in DOMAIN inv :
    LET st == inv[s] IN
    /\ st.op = "deleteItem" /\ st.status = "returned"
    /\ st.last.resp.status = 200 /\ st.last.resp.body.kind = "empty"
    /\ st.last.resp.contentType = "application/json; charset=utf-8"

\* the endpoint segment the remote API has for each of the nine routed types
TypedSegment ==
  [ t \in RoutedTypes |->
      CASE t = "sticky_note" -> "sticky_notes" [] t = "shape" -> "shapes"
        [] t = "text" -> "texts"               [] t = "card" -> "cards"
        [] t = "connector" -> "connectors"     [] t = "frame" -> "frames"
        [] t = "image" -> "images"             [] t = "document" -> "documents"
        [] t = "embed" -> "embeds" ]

\* C11: when updateItem has fetched an item of one of the nine routed types, its
\* PATCH goes to that type's endpoint for the same board and item id, not to the
\* generic /items/{id} endpoint
C11_UpdateRoutedByType ==
  \A s \in DOMAIN inv :
    LET st == inv[s]
        t  == st.last.out.value.type
    IN
    (/\ st.op = "updateItem" /\ st.last.call = 1 /\ st.last.out.kind = "value"
     /\ t \in RoutedTypes) =>
      /\ Len(st.calls) = 2
      /\ st.calls[2].method = "PATCH"
      /\ st.calls[2].segment = TypedSegment[t] /\ st.calls[2].segment # "items"
      /\ st.calls[2].board = st.board /\ st.calls[2].board = st.calls[1].board
      /\ st.calls[2].id = st.input[1].id /\ st.calls[2].id = st.calls[1].id

C11_Witness ==
  \E s \in DOMAIN inv :
    LET st == inv[s] IN
    /\ st.op = "updateItem" /\ st.status = "waiting" /\ st.awaiting = 2
    /\ st.last.out.value.type = "shape"
    /\ st.calls[2].segment = "shapes" /\ st.calls[2].id = st.input[1].id

\* C12, as claimed: deleteItem first fetches the item and then sends the DELETE to
\* the endpoint of the fetched type
C12_DeleteFetchesAndRoutes ==
  \A s \in DOMAIN inv :
    LET st == inv[s] IN
    (st.op = "deleteItem" /\ st.status = "returned") =>
      /\ Len(st.calls) = 2
      /\ st.calls[1].method = "GET"
      /\ st.calls[2].method = "DELETE"
      /\ st.calls[2].segment = TypeSegment(RemoteTypeOf(st.input[1].id))

\* C12, amended: deleteItem never fetches the item: its only request is a DELETE
\* to the generic /boards/{b}/items/{id} endpoint, whatever the type of the item
C12_DeleteGenericEndpoint ==
  \A s \in DOMAIN inv :
    LET st == inv[s] IN
    st.op = "deleteItem" =>
      /\ Len(st.calls) = 1
      /\ st.calls[1].method = "DELETE"
      /\ st.calls[1].segment = "items"
      /\ st.calls[1].board = st.board
      /\ st.calls[1].id = st.input[1].id

C12_Witness ==
  \E s \in DOMAIN inv :
    LET st == inv[s] IN
    /\ st.op = "deleteItem" /\ st.status = "returned"
    /\ RemoteTypeOf(st.input[1].id) = "shape"
    /\ st.calls[1].segment = "items"

\* C13, as claimed: every invocation of a client operation issues exactly one
\* request
C13_ExactlyOneRequest ==
  \A s \in DOMAIN inv :
    LET st == inv[s] IN
    st.op \in SingleOps => Len(st.calls) = 1

\* C13, amended: every client operation other than updateItem issues exactly one
\* request; updateItem issues a GET and, once the GET has returned a value, one
\* PATCH: it has issued both when it returns, and no request is issued after one
\* that failed
C13_OneRequestExceptUpdate ==
  \A s \in DOMAIN inv :
    LET st == inv[s] IN
    st.op \in SingleOps =>
      /\ st.op # "updateItem" => Len(st.calls) = 1
      /\ st.op = "updateItem" =>
           /\ Len(st.calls) \in { 1, 2 }
           /\ st.calls[1].method = "GET"
           /\ Len(st.calls) = 2 => st.calls[2].method = "PATCH"
           /\ st.status = "returned" => Len(st.calls) = 2
      /\ st.status = "threw" => st.last.call = Len(st.calls)
      /\ st.pending \subseteq { Len(st.calls) }

C13_Witness ==
  \E s \in DOMAIN inv :
    LET st == inv[s] IN
    /\ st.op = "updateItem" /\ st.status = "returned" /\ Len(st.calls) = 2

\* C14: once the process has started, a token given with --token is the resolved
\* credential when the environment variable is set as well, and the environment
\* variable is the resolved credential when no token was given with --token
C14_CredentialPrecedence ==
  (proc.state # "starting") =>
    /\ (~Falsy(proc.argvToken) /\ ~Falsy(proc.envToken)) =>
         proc.state = "running" /\ proc.client /\ proc.token = proc.argvToken
    /\ (Falsy(proc.argvToken) /\ ~Falsy(proc.envToken)) =>
         proc.state = "running" /\ proc.client /\ proc.token = proc.envToken

C14_Witness ==
  /\ proc.state = "running"
  /\ proc.argvToken = "tokenA" /\ proc.envToken = "tokenB"
  /\ proc.token = "tokenA"
  /\ \E s \in DOMAIN inv :
       /\ inv[s].entry = "tool" /\ inv[s].calls # << >>
       /\ inv[s].calls[1].headers.Authorization = << "Bearer", "tokenA" >>

\* C15: when neither --token nor the environment variable holds a non-empty
\* token, the process has exited with a non-zero status once its top level has
\* run, its client was never constructed, no tool, resource handler or route of
\* it was ever entered and it issued no request, before or after the exit (what
\* is in progress then is an operation of a client that another program
\* constructed)
C15_NoCredentialExits ==
  (Falsy(proc.argvToken) /\ Falsy(proc.envToken)) =>
    /\ proc.state # "running"
    /\ ~proc.client
    /\ proc.token = Absent
    /\ proc.state # "starting" => proc.state = "exited" /\ proc.exitCode # 0
    /\ \A s \in DOMAIN inv :
         \/ inv[s].entry = "client"
         \/ inv[s].status = "idle" /\ inv[s].entry = "none" /\ inv[s].calls = << >>

C15_Witness ==
  /\ proc.state = "exited" /\ proc.exitCode = 1
  /\ proc.argvToken = Absent /\ proc.envToken = ""
  /\ \A s \in DOMAIN inv : inv[s] = IdleInv

\* C16: a tool invocation that failed, with an error of the remote service, a
\* size-limit error or an unknown tool name, has replied with a text payload
\* "Error: <message>" marked as an error; the process keeps running, and the
\* handler becomes idle again and accepts every next tool invocation
C16_ToolFailureIsReply ==
  \A s \in DOMAIN inv :
    LET st == inv[s] IN
    /\ (st.entry = "tool" /\ st.status = "threw") =>
         /\ proc.state = "running"
         /\ st.reply.sent /\ st.reply.isError
         /\ st.reply.text = "Error: " /\ st.reply.error = st.error
         /\ st.error # NoError
         /\ st.pending = {} => ENABLED Finish(s)
    /\ (st.entry = "tool" /\ st.status = "returned") =>
         /\ st.reply.sent
         /\ st.reply.error # NoError => st.reply.isError /\ st.reply.text = "Error: "
    /\ (st.status = "idle" /\ proc.state = "running") =>
         ENABLED InvokeBulk(s) /\ ENABLED InvokeSingle(s) /\ ENABLED InvokeUnknown(s)

C16_Witness ==
  \E s \in DOMAIN inv :
    LET st == inv[s] IN
    /\ st.status = "threw" /\ st.tool = "get_item"
    /\ st.error.message = "Miro API error" /\ st.error.status = 404
    /\ st.reply.isError /\ st.reply.error = st.error
    /\ proc.state = "running"

\* C17, as claimed: the count each of the four bulk tools reports is the number
\* of elements that succeeded
C17_CountIsSuccesses ==
  \A s \in DOMAIN inv :
    LET st == inv[s] IN
    (st.tool \in BulkTools /\ st.status = "returned") =>
      /\ st.reply.sent /\ ~st.reply.isError
      /\ st.reply.n = Len(st.input) - Cardinality(FailedElems(st))

\* C18: every request issued carries Authorization: Bearer <token> and
\* Content-Type: application/json.  For every request of a tool, a resource
\* handler or the route of the process, <token> is the credential resolved from
\* the option and the environment the process was launched with: the same token
\* for every request of every invocation.  For a request of a client that another
\* program constructed, <token> is the token that client was constructed with
C18_HeadersOnEveryRequest ==
  LET resolved == ResolveToken(proc.argvToken, proc.envToken) IN
  /\ proc.state = "running" => proc.token = resolved
  /\ \A s \in DOMAIN inv :
       /\ \A k \in 1..Len(inv[s].calls) :
            /\ inv[s].calls[k].headers.Authorization = << "Bearer", inv[s].token >>
            /\ inv[s].calls[k].headers.ContentType = "application/json"
            /\ inv[s].entry # "client" =>
                 inv[s].calls[k].headers.Authorization = << "Bearer", resolved >>

C18_Witness ==
  /\ proc.argvToken = Absent /\ proc.envToken = "tokenB"
  /\ \A s \in DOMAIN inv :
       /\ inv[s].entry = "tool" /\ inv[s].calls # << >>
       /\ inv[s].calls[1].headers.Authorization = << "Bearer", "tokenB" >>
  /\ \E s \in DOMAIN inv :
       /\ inv[s].op = "updateItem" /\ Len(inv[s].calls) = 2
       /\ inv[s].calls[2].headers.Authorization = << "Bearer", "tokenB" >>

\* C19: when a create has returned an item with id X to one handler and a read of
\* item X on the same board, which the service answered with the item at the
\* address requested, has returned to another, the item read has id X
C19_CreateThenRead ==
  \A s \in DOMAIN inv, t \in DOMAIN inv :
    LET rd == inv[s]
        cr == inv[t]
    IN
    (/\ cr.op \in CreateOps /\ cr.status = "returned" /\ cr.value.id # 0
     /\ rd.op = "getItem" /\ rd.status = "returned"
     /\ rd.board = cr.board /\ rd.input[1].id = cr.value.id
     /\ IsNominal(rd.calls[1], rd.last.resp)) =>
      /\ rd.value.id = cr.value.id
      /\ rd.value.type = cr.value.type

C19_Witness ==
  \E s \in DOMAIN inv, t \in DOMAIN inv :
    /\ inv[t].op = "createStickyNote" /\ inv[t].status = "returned"
    /\ inv[t].value.id > NTypes
    /\ inv[s].op = "getItem" /\ inv[s].status = "returned"
    /\ inv[s].input[1].id = inv[t].value.id
    /\ inv[s].value.id = inv[t].value.id
    /\ inv[s].value.type = "sticky_note"

\* C20, as claimed: a request the service rejected with 429 is issued again
C20_RateLimitRetried ==
  \A s \in DOMAIN inv :
    LET st == inv[s] IN
    (st.op \in SingleOps /\ st.last.call # 0 /\ st.last.resp.status = 429) =>
      /\ st.status # "threw"
      /\ Len(st.calls) > st.last.call
      /\ st.calls[st.last.call + 1].method = st.calls[st.last.call].method
      /\ st.calls[st.last.call + 1].segment = st.calls[st.last.call].segment
      /\ st.calls[st.last.call + 1].id = st.calls[st.last.call].id

\* the elements of a batch the loop has gone past
Passed(st) == { k \in 1..Len(st.input) : k < st.i }

\* C21, as claimed: a bulk operation that returned for a batch of n <= 20 elements
\* has called the client once for every element, whatever its type and outcome,
\* the calls being in input order
C21_OneCallPerElement ==
  \A s \in DOMAIN inv :
    LET st == inv[s] IN
    (st.op \in BulkOps /\ st.status = "returned" /\ Len(st.input) <= BatchLimit) =>
      /\ \A k \in 1..Len(st.input) : CallsFor(st, k) # {}
      /\ \A j \in 1..(Len(st.calls) - 1) : st.calls[j].elem <= st.calls[j + 1].elem

\* C22: an update issues its PATCH only after the GET of the same board and item
\* has completed; when the GET fails updateItem throws that error with no PATCH
\* issued, and in a batch the element is dropped with no PATCH issued for it
C22_ReadBeforeWrite ==
  \A s \in DOMAIN inv :
    LET st == inv[s] IN
    st.op \in { "updateItem", "bulkUpdateItems" } =>
      /\ \A j \in 1..Len(st.calls) :
           st.calls[j].method = "PATCH" =>
             /\ j > 1
             /\ st.calls[j - 1].method = "GET"
             /\ (j - 1) \notin st.pending
             /\ ~(st.status = "reading" /\ st.awaiting = j - 1)
             /\ st.calls[j - 1].board = st.calls[j].board
             /\ st.calls[j - 1].id = st.calls[j].id
             /\ st.calls[j - 1].elem = st.calls[j].elem
      /\ (st.op = "updateItem" /\ st.last.call = 1 /\ st.last.out.kind = "throw") =>
           /\ st.status = "threw" /\ st.error = st.last.out.error
           /\ Len(st.calls) = 1
      /\ st.op = "bulkUpdateItems" =>
           \A k \in Passed(st) :
             (\A j \in CallsFor(st, k) : st.calls[j].method = "GET") =>
               /\ k \in FailedElems(st)
               /\ \A r \in 1..Len(st.results) : st.results[r].elem # k

C22_Witness ==
  \E s \in DOMAIN inv :
    LET st == inv[s] IN
    /\ st.op = "bulkUpdateItems" /\ st.status = "returned" /\ Len(st.input) = 2
    /\ Cardinality(CallsFor(st, 1)) = 1 /\ 1 \in FailedElems(st)
    /\ Cardinality(CallsFor(st, 2)) = 2 /\ Len(st.results) = 1

\* C23: when the type updateItem fetched is none of the nine routed types
\* (app_card, or no type at all), the update does not throw locally: the PATCH goes
\* to the generic /items/{id} endpoint of the same board and item, and carries the
\* payload of the caller as it was given
C23_UnrecognizedTypeFallsBack ==
  \A s \in DOMAIN inv :
    LET st == inv[s] IN
    (/\ st.op = "updateItem" /\ st.last.call = 1 /\ st.last.out.kind = "value"
     /\ st.last.out.value.type \notin RoutedTypes) =>
      /\ st.status \in { "waiting", "reading" } /\ st.awaiting = 2
      /\ Len(st.calls) = 2
      /\ st.calls[2].method = "PATCH"
      /\ st.calls[2].segment = "items"
      /\ st.calls[2].board = st.board
      /\ st.calls[2].id = st.input[1].id
      /\ st.input[1].data # "" => st.calls[2].body = "json:" \o st.input[1].data
      /\ st.input[1].data = "" => st.calls[2].body = "none"

C23_Witness ==
  \E s \in DOMAIN inv :
    LET st == inv[s] IN
    /\ st.op = "updateItem" /\ st.status = "waiting" /\ st.awaiting = 2
    /\ st.last.out.value.type = "app_card"
    /\ st.calls[2].segment = "items" /\ st.calls[2].body = "json:d"

\* C24: a batch of exactly 20 elements is never rejected, and once the operation
\* has returned all 20 elements were attempted; a bulk operation has thrown its
\* size-limit error if and only if the batch has 21 elements or more
C24_LimitIsInclusive ==
  \A s \in DOMAIN inv :
    LET st == inv[s] IN
    st.op \in BulkOps =>
      /\ (st.status = "threw" /\ st.error = PlainError(SizeLimitMessage(st.op)))
           <=> Len(st.input) >= 21
      /\ Len(st.input) = 20 =>
           /\ st.status # "threw"
           /\ st.calls # << >> \/ st.errors # << >>
           /\ st.status = "returned" =>
                /\ st.i = 21
                /\ \A k \in 1..20 : CallsFor(st, k) # {} \/ k \in FailedElems(st)

C24_Witness ==
  \E s \in DOMAIN inv :
    LET st == inv[s] IN
    /\ st.op = "bulkCreateConnectors" /\ Len(st.input) = 20
    /\ st.status = "returned" /\ Len(st.results) = 20 /\ Len(st.calls) = 20

\* C25: provided every request in flight is answered in the end and every body
\* that is read ends, a bulk operation that was called with at most 20 elements and
\* awaits a request or the body of a response returns to its caller
C25_BatchReturns ==
  (/\ inv["h1"].op \in BulkOps /\ Len(inv["h1"].input) <= BatchLimit
   /\ inv["h1"].status \in { "waiting", "reading" })
    ~> (inv["h1"].op \in BulkOps /\ inv["h1"].status = "returned")

C25_Witness ==
  \E s \in DOMAIN inv :
    LET st == inv[s] IN
    /\ st.op = "bulkUpdateItems" /\ Len(st.input) = BatchLimit
    /\ st.status = "returned" /\ st.pending = {}
    /\ st.i = BatchLimit + 1 /\ Len(st.errors) = 1

\* the key a failure record has to name, by the operation and the element
NamedKey(op, e) ==
  CASE op = "bulkCreateItems"      -> << "type", e.type >>
    [] op = "bulkUpdateItems"      -> << "id", e.id >>
    [] op = "bulkDeleteItems"      -> << "id", e >>
    [] op = "bulkCreateConnectors" -> << "from-to", e.startItemId, e.endItemId >>

\* C26: the failure records of a batch name their elements by the identifying
\* key, there is at most one record per element and none for an element with a
\* result; an element the loop went past without a result has exactly one record,
\* and bulkDeleteItems has no more records than requests that failed
C26_OneRecordPerFailure ==
  \A s \in DOMAIN inv :
    LET st == inv[s] IN
    (st.op \in BulkOps /\ Len(st.input) <= BatchLimit) =>
      /\ \A j \in 1..Len(st.errors) :
           /\ st.errors[j].elem \in Passed(st)
           /\ st.errors[j].key = NamedKey(st.op, st.input[st.errors[j].elem])
           /\ j > 1 => st.errors[j - 1].elem < st.errors[j].elem
      /\ \A r \in 1..Len(st.results) : st.results[r].elem \notin FailedElems(st)
      /\ st.op \in ListOps =>
           Len(st.results) + Len(st.errors) = Cardinality(Passed(st))
      /\ st.op = "bulkDeleteItems" => Len(st.errors) <= st.faults

C26_Witness ==
  \E s \in DOMAIN inv :
    LET st == inv[s] IN
    /\ st.op = "bulkCreateConnectors" /\ st.status = "returned" /\ Len(st.input) = 3
    /\ Len(st.results) = 2 /\ Len(st.errors) = 1
    /\ st.errors[1].elem = 2
    /\ st.errors[1].key = << "from-to", st.input[2].startItemId, st.input[2].endItemId >>

\* C27: createConnector, called alone or for the elements of a connector batch,
\* issues nothing but its POST to /connectors: no item is read first, and the
\* single operation throws only the error made from the response to that POST
C27_ConnectorWithoutRead ==
  \A s \in DOMAIN inv :
    LET st == inv[s] IN
    st.op \in { "createConnector", "bulkCreateConnectors" } =>
      /\ \A j \in 1..Len(st.calls) :
           /\ st.calls[j].method = "POST" /\ st.calls[j].segment = "connectors"
           /\ st.calls[j].board = st.board
           /\ j > 1 => st.calls[j - 1].elem + 1 = st.calls[j].elem
      /\ st.op = "createConnector" =>
           /\ Len(st.calls) = 1
           /\ st.status = "threw" =>
                /\ st.last.call = 1 /\ st.error = st.last.out.error
                /\ \/ st.last.resp.status < 200 \/ st.last.resp.status > 299
                   \/ st.error = JsonSyntaxError
      /\ (st.op = "bulkCreateConnectors" /\ Len(st.input) <= BatchLimit) =>
           \A k \in Passed(st) : Cardinality(CallsFor(st, k)) = 1

C27_Witness ==
  \E s \in DOMAIN inv :
    LET st == inv[s] IN
    /\ st.op = "createConnector" /\ st.status = "threw"
    /\ Len(st.calls) = 1 /\ st.calls[1].method = "POST"
    /\ st.last.resp.status = 404 /\ st.error.status = 404

\* C28: in bulkCreateItems an element whose type is none of the eight types the
\* operation creates has no request issued for it, has a failure record and no
\* result, and does not stop the batch: the call does not throw and the elements
\* after it are processed
C28_UnsupportedTypeSkipped ==
  \A s \in DOMAIN inv :
    LET st == inv[s]
        supported == { "sticky_note", "text", "shape", "card", "frame", "image",
                       "document", "embed" }
    IN
    (st.op = "bulkCreateItems" /\ Len(st.input) <= BatchLimit) =>
      /\ st.status # "threw"
      /\ \A k \in 1..Len(st.input) :
           /\ st.input[k].type \notin supported =>
                /\ CallsFor(st, k) = {}
                /\ \A r \in 1..Len(st.results) : st.results[r].elem # k
                /\ k \in Passed(st) => k \in FailedElems(st)
           /\ (st.input[k].type \in supported /\ k \in Passed(st)) =>
                IF st.input[k].data = "d"
                  THEN Cardinality(CallsFor(st, k)) = 1
                  ELSE CallsFor(st, k) = {} /\ k \in FailedElems(st)
      /\ st.status = "returned" => Passed(st) = 1..Len(st.input)

C28_Witness ==
  \E s \in DOMAIN inv :
    LET st == inv[s] IN
    /\ st.op = "bulkCreateItems" /\ st.status = "returned" /\ Len(st.input) = 3
    /\ st.input[1].type = "connector" /\ st.input[2].type = "shape"
    /\ st.input[3].type = "app_card"
    /\ Len(st.calls) = 1 /\ st.calls[1].elem = 2
    /\ Len(st.results) = 1 /\ st.results[1].elem = 2
    /\ FailedElems(st) = { 1, 3 }

\* C29: while bulk invocations overlap, each holds only the results of its own
\* elements, in its own input order, each made from the answer to one of its own
\* requests for that element; and each is rejected by the size check if and only
\* if its own batch is longer than 20
C29_BatchesIsolated ==
  \A s \in DOMAIN inv :
    LET st == inv[s] IN
    st.op \in BulkOps =>
      /\ (st.status = "threw") <=> (Len(st.input) > BatchLimit)
      /\ \A r \in 1..Len(st.results) :
           LET res == st.results[r] IN
           /\ res.elem \in Passed(st)
           /\ r > 1 => st.results[r - 1].elem < res.elem
           /\ res.value # EmptyObject =>
                /\ res.value.call \in CallsFor(st, res.elem)
                /\ st.op = "bulkUpdateItems" => res.value.id = st.input[res.elem].id
                /\ st.op = "bulkCreateItems" => res.value.type = st.input[res.elem].type
                /\ st.op = "bulkCreateConnectors" => res.value.type = "connector"

C29_Witness ==
  \E s \in DOMAIN inv, t \in DOMAIN inv :
    /\ s # t
    /\ inv[s].op = "bulkUpdateItems" /\ inv[s].status = "returned"
    /\ Len(inv[s].input) = 2 /\ Len(inv[s].results) = 2
    /\ inv[s].input[1].id # inv[s].input[2].id
    /\ inv[s].results[1].elem = 1 /\ inv[s].results[2].elem = 2
    /\ inv[s].results[1].value.id = inv[s].input[1].id
    /\ inv[s].results[2].value.id = inv[s].input[2].id
    /\ inv[t].op = "bulkCreateItems" /\ inv[t].status = "waiting"
    /\ Len(inv[t].input) = 2 /\ inv[t].i = 2
    /\ Len(inv[t].results) = 1 /\ inv[t].results[1].elem = 1
    /\ inv[t].results[1].value.type = "sticky_note"
    /\ inv[t].pending # {}

\* C30: for a 2xx response that is not a 204 and does not answer a DELETE, fetchApi
\* decodes the body as JSON only when the content type is application/json; with any
\* other content type, or none, it returns the empty object and does not throw
C30_JsonOnlyWhenDeclared ==
  \A s \in DOMAIN inv :
    LET st   == inv[s]
        resp == st.last.resp
    IN
    (/\ st.op \in SingleOps /\ st.last.call # 0
     /\ resp.status >= 200 /\ resp.status <= 299 /\ resp.status # 204
     /\ st.calls[st.last.call].method # "DELETE") =>
      IF resp.contentType = "application/json; charset=utf-8"
        THEN \/ /\ resp.body.kind = "json"
                /\ st.last.out = Value(resp.body.value, TRUE)
             \/ /\ resp.body.kind # "json"
                /\ st.last.out.kind = "throw" /\ st.last.out.error = JsonSyntaxError
        ELSE /\ st.last.out = Value(EmptyObject, FALSE)
             /\ st.status # "threw"

C30_Witness ==
  \E s \in DOMAIN inv :
    LET st == inv[s] IN
    /\ st.op = "getItem" /\ st.status = "returned"
    /\ st.last.resp.status = 200 /\ st.last.resp.contentType = "text/html"
    /\ st.last.resp.body.kind = "json"
    /\ st.value = EmptyObject

====
